---- MODULE Spec2Model ----
(***************************************************************************)
(* Model of openage/util/fslike/filecollection.py: FileCollection, an      *)
(* in-memory directory tree of file entries.                               *)
(*                                                                         *)
(* A directory is the Python pair (fileentries, subdirs) of OrderedDicts.  *)
(* An OrderedDict is modelled as the sequence of its <<key, value>> items  *)
(* in iteration order; a directory as the record [files, subdirs].         *)
(* Every method is a pure operator from the tree before the call to the    *)
(* exception raised ("ok" when none), the value returned and the tree      *)
(* after the call; the actions apply the methods to the collection.        *)
(***************************************************************************)
EXTENDS Naturals, Sequences, FiniteSets

\* ---------------------------------------------------------------- bounds
\* longest path (number of segments) a caller passes
MaxLen == 2
\* most files and directories the callers keep in the collection
MaxNodes == 4

\* path segments
Names == {"a", "b"}

Paths == UNION {[1..n -> Names] : n \in 0..MaxLen}

\* the entries callers register: tuples built by FileCollectionPath.add_file
\* (slot "None" or a callable "fn"), and a FileEntry subclass instance whose
\* methods return a value, return None or are the base class's (which raise)
FileEntries ==
    { [kind |-> "tuple", open_r |-> "fn", open_w |-> "None",
       size |-> "fn", mtime |-> "None"],
      [kind |-> "tuple", open_r |-> "None", open_w |-> "fn",
       size |-> "None", mtime |-> "fn"],
      [kind |-> "FileEntry", open_r |-> "value", open_w |-> "None",
       size |-> "value", mtime |-> "unsupported"] }

\* targets tried by rename (the method ignores both arguments)
RenameTargets == {p \in Paths : Len(p) <= 1}

\* ------------------------------------------------------- OrderedDict
\* key in d
OD_has(d, k) == \E i \in DOMAIN d : d[i][1] = k

\* d[key]
OD_get(d, k) == d[CHOOSE i \in DOMAIN d : d[i][1] = k][2]

\* iteration over d: the keys in insertion order
OD_keys(d) == [i \in DOMAIN d |-> d[i][1]]

\* mutant: assignment to an existing key is ignored (setdefault)
OD_set_keepold(d, k, v) ==
    IF OD_has(d, k) THEN d ELSE Append(d, <<k, v>>)

\* mutant: assignment always moves the key to the end
OD_set_movetoend(d, k, v) ==
    Append(SelectSeq(d, LAMBDA it : it[1] # k), <<k, v>>)

\* d[key] = value: an existing key keeps its position, a new one goes last
OD_set(d, k, v) ==
    IF OD_has(d, k)
    THEN [i \in DOMAIN d |-> IF d[i][1] = k THEN <<k, v>> ELSE d[i]]
    ELSE Append(d, <<k, v>>)

\* mutant: deleting a key also drops everything inserted after it
OD_del_truncate(d, k) ==
    IF OD_has(d, k)
    THEN SubSeq(d, 1, (CHOOSE i \in DOMAIN d : d[i][1] = k) - 1)
    ELSE d

\* del d[key]
OD_del(d, k) == SelectSeq(d, LAMBDA it : it[1] # k)

\* OrderedDict(), OrderedDict()
EmptyDir == [files |-> <<>>, subdirs |-> <<>>]

\* parts[:n]
Prefix(parts, n) == SubSeq(parts, 1, n)

\* parts[:-1]
Parent(parts) == SubSeq(parts, 1, Len(parts) - 1)

\* parts[-1]
Last(parts) == parts[Len(parts)]

\* the directory object reached from `entries` along existing subdirs
RECURSIVE DirAt(_, _)
DirAt(entries, parts) ==
    IF parts = <<>> THEN entries
    ELSE DirAt(OD_get(entries.subdirs, Head(parts)), Tail(parts))

\* in-place mutation of the directory object at `parts`: the tree in which
\* that object has become `new`
RECURSIVE Mutate(_, _, _)
Mutate(entries, parts, new) ==
    IF parts = <<>> THEN new
    ELSE [entries EXCEPT !.subdirs =
            OD_set(@, Head(parts),
                   Mutate(OD_get(entries.subdirs, Head(parts)),
                          Tail(parts), new))]

\* ------------------------------------------------------- get_direntries
\* mutant: create mode does not look at the file mapping
get_direntries_nofilecheck(root, parts, create) ==
    LET RECURSIVE loop(_, _)
        loop(entries, idx) ==
            IF idx > Len(parts)
            THEN [err |-> "ok", at |-> 0, root |-> entries, where |-> parts]
            ELSE LET subdir == parts[idx]
                     missing == ~OD_has(entries.subdirs, subdir)
                 IN  IF missing /\ ~create
                     THEN [err |-> "FileNotFoundError", at |-> idx,
                           root |-> entries,
                           where |-> Prefix(parts, idx - 1)]
                     ELSE LET e1 == IF missing
                                    THEN [entries EXCEPT !.subdirs =
                                            OD_set(@, subdir, EmptyDir)]
                                    ELSE entries
                              r == loop(OD_get(e1.subdirs, subdir), idx + 1)
                          IN  [r EXCEPT !.root = [e1 EXCEPT !.subdirs =
                                   OD_set(@, subdir, r.root)]]
    IN  loop(root, 1)

\* get_direntries(parts, create) on the tree `root`.
\*   err   : the exception raised, "ok" when the walk returns
\*   at    : the exception's message is parts[:at]
\*   root  : the tree after the call (create mode inserts directories as
\*           the walk proceeds; what was inserted before a raise stays)
\*   where : the path of the directory object returned (when err = "ok")
\* loop(entries, idx) is the walk from parts[idx] on, begun at the directory
\* object `entries`; its root is that object after the walk
get_direntries(root, parts, create) ==
    LET RECURSIVE loop(_, _)
        loop(entries, idx) ==
            IF idx > Len(parts)
            THEN [err |-> "ok", at |-> 0, root |-> entries, where |-> parts]
            ELSE LET subdir == parts[idx]
                     missing == ~OD_has(entries.subdirs, subdir)
                 IN  IF missing /\ create /\ OD_has(entries.files, subdir)
                     THEN [err |-> "FileExistsError", at |-> idx,
                           root |-> entries,
                           where |-> Prefix(parts, idx - 1)]
                     ELSE IF missing /\ ~create
                     THEN [err |-> "FileNotFoundError", at |-> idx,
                           root |-> entries,
                           where |-> Prefix(parts, idx - 1)]
                     ELSE LET e1 == IF missing
                                    THEN [entries EXCEPT !.subdirs =
                                            OD_set(@, subdir, EmptyDir)]
                                    ELSE entries
                              r == loop(OD_get(e1.subdirs, subdir), idx + 1)
                          IN  [r EXCEPT !.root = [e1 EXCEPT !.subdirs =
                                   OD_set(@, subdir, r.root)]]
    IN  loop(root, 1)

\* result of a method: exception ("ok": none), return value, tree afterwards,
\* and the <<path, slot>> of the entry methods / providers it called
Raise(exc, root) ==
    [err |-> exc, ret |-> "None", root |-> root, invoked |-> {}]

Return(value, root) ==
    [err |-> "ok", ret |-> value, root |-> root, invoked |-> {}]

\* ------------------------------------------------------- add_fileentry
\* mutant: the final name is stored without looking at the subdirectories
add_fileentry_nodircheck(root, parts, fileentry) ==
    IF parts = <<>> THEN Raise("IsADirectoryError", root)
    ELSE LET d == get_direntries(root, Parent(parts), TRUE)
         IN  IF d.err # "ok" THEN Raise(d.err, d.root)
             ELSE LET entries == DirAt(d.root, d.where)
                  IN  Return("None", Mutate(d.root, d.where,
                          [entries EXCEPT !.files =
                              OD_set(@, Last(parts), fileentry)]))

\* mutant: the whole path, final name included, is resolved in create mode
add_fileentry_mkdirsall(root, parts, fileentry) ==
    IF parts = <<>> THEN Raise("IsADirectoryError", root)
    ELSE LET d == get_direntries(root, parts, TRUE)
         IN  IF d.err # "ok" THEN Raise(d.err, d.root)
             ELSE LET where == Parent(parts)
                      entries == DirAt(d.root, where)
                  IN  Return("None", Mutate(d.root, where,
                          [entries EXCEPT !.files =
                              OD_set(@, Last(parts), fileentry)]))

\* mutant: the entry is stored before the final name is looked up among the
\* subdirectories
add_fileentry_storefirst(root, parts, fileentry) ==
    IF parts = <<>> THEN Raise("IsADirectoryError", root)
    ELSE LET d == get_direntries(root, Parent(parts), TRUE)
         IN  IF d.err # "ok" THEN Raise(d.err, d.root)
             ELSE LET entries == DirAt(d.root, d.where)
                      name == Last(parts)
                      stored == Mutate(d.root, d.where,
                                    [entries EXCEPT !.files =
                                        OD_set(@, name, fileentry)])
                  IN  IF OD_has(entries.subdirs, name)
                      THEN Raise("IsADirectoryError", stored)
                      ELSE Return("None", stored)

\* add_fileentry(parts, fileentry)
add_fileentry(root, parts, fileentry) ==
    IF parts = <<>> THEN Raise("IsADirectoryError", root)
    ELSE LET d == get_direntries(root, Parent(parts), TRUE)
         IN  IF d.err # "ok" THEN Raise(d.err, d.root)
             ELSE LET entries == DirAt(d.root, d.where)
                      name == Last(parts)
                  IN  IF OD_has(entries.subdirs, name)
                      THEN Raise("IsADirectoryError", d.root)
                      ELSE Return("None", Mutate(d.root, d.where,
                              [entries EXCEPT !.files =
                                  OD_set(@, name, fileentry)]))

\* ------------------------------------------------------- get_fileentry
\* mutant: a directory under the final name is reported as a missing file
get_fileentry_dirnotfound(root, parts) ==
    IF parts = <<>> THEN Raise("FileNotFoundError", root)
    ELSE LET d == get_direntries(root, Parent(parts), FALSE)
         IN  IF d.err # "ok" THEN Raise(d.err, d.root)
             ELSE LET entries == DirAt(d.root, d.where)
                      name == Last(parts)
                  IN  IF ~OD_has(entries.files, name)
                      THEN Raise("FileNotFoundError", d.root)
                      ELSE Return(OD_get(entries.files, name), d.root)

\* get_fileentry(parts)
get_fileentry(root, parts) ==
    IF parts = <<>> THEN Raise("IsADirectoryError", root)
    ELSE LET d == get_direntries(root, Parent(parts), FALSE)
         IN  IF d.err # "ok" THEN Raise(d.err, d.root)
             ELSE LET entries == DirAt(d.root, d.where)
                      name == Last(parts)
                  IN  IF OD_has(entries.subdirs, name)
                      THEN Raise("IsADirectoryError", d.root)
                      ELSE IF ~OD_has(entries.files, name)
                      THEN Raise("FileNotFoundError", d.root)
                      ELSE Return(OD_get(entries.files, name), d.root)

\* entry.open_r() / open_w() / size() / mtime() on a stored entry: a tuple
\* has no such attribute; a FileEntry's method returns a value or None, or
\* is the base class's and raises
CallMethod(entry, slot) ==
    IF entry.kind = "tuple"
    THEN [err |-> "AttributeError", ret |-> "None", called |-> FALSE]
    ELSE IF entry[slot] = "unsupported"
    THEN [err |-> "UnsupportedOperation", ret |-> "None", called |-> TRUE]
    ELSE [err |-> "ok", ret |-> entry[slot], called |-> TRUE]

\* the result r of a method that made the call c of the entry at parts
Via(r, parts, slot, c) ==
    [r EXCEPT !.invoked = IF c.called THEN {<<parts, slot>>} ELSE {}]

\* open_r(parts)
open_r(root, parts) ==
    LET g == get_fileentry(root, parts)
    IN  IF g.err # "ok" THEN Raise(g.err, g.root)
        ELSE LET c == CallMethod(g.ret, "open_r")
             IN  Via(IF c.err # "ok" THEN Raise(c.err, g.root)
                     ELSE IF c.ret = "None"
                     THEN Raise("UnsupportedOperation", g.root)
                     ELSE Return(c.ret, g.root),
                     parts, "open_r", c)

\* open_w(parts)
open_w(root, parts) ==
    LET g == get_fileentry(root, parts)
    IN  IF g.err # "ok" THEN Raise(g.err, g.root)
        ELSE LET c == CallMethod(g.ret, "open_w")
             IN  Via(IF c.err # "ok" THEN Raise(c.err, g.root)
                     ELSE IF c.ret = "None"
                     THEN Raise("UnsupportedOperation", g.root)
                     ELSE Return(c.ret, g.root),
                     parts, "open_w", c)

\* mutant: the file names are yielded before the subdirectory names
list_filesfirst(root, parts) ==
    LET d == get_direntries(root, parts, FALSE)
    IN  IF d.err # "ok" THEN Raise(d.err, d.root)
        ELSE LET entries == DirAt(d.root, d.where)
             IN  Return(OD_keys(entries.files) \o OD_keys(entries.subdirs),
                        d.root)

\* list(parts), iterated to the end by the caller
list(root, parts) ==
    LET d == get_direntries(root, parts, FALSE)
    IN  IF d.err # "ok" THEN Raise(d.err, d.root)
        ELSE LET entries == DirAt(d.root, d.where)
             IN  Return(OD_keys(entries.subdirs) \o OD_keys(entries.files),
                        d.root)

\* mutant: the walk is made without create=True
mkdirs_nocreate(root, parts) ==
    LET d == get_direntries(root, parts, FALSE)
    IN  IF d.err # "ok" THEN Raise(d.err, d.root)
        ELSE Return("None", d.root)

\* mutant: only the parent chain is created
mkdirs_parentonly(root, parts) ==
    LET d == get_direntries(root, Parent(parts), TRUE)
    IN  IF d.err # "ok" THEN Raise(d.err, d.root)
        ELSE Return("None", d.root)

\* mkdirs(parts)
mkdirs(root, parts) ==
    LET d == get_direntries(root, parts, TRUE)
    IN  IF d.err # "ok" THEN Raise(d.err, d.root)
        ELSE Return("None", d.root)

\* filesize(parts)
filesize(root, parts) ==
    LET g == get_fileentry(root, parts)
    IN  IF g.err # "ok" THEN Raise(g.err, g.root)
        ELSE LET c == CallMethod(g.ret, "size")
             IN  Via(IF c.err # "ok" THEN Raise(c.err, g.root)
                     ELSE Return(c.ret, g.root),
                     parts, "size", c)

\* mtime(parts)
mtime(root, parts) ==
    LET g == get_fileentry(root, parts)
    IN  IF g.err # "ok" THEN Raise(g.err, g.root)
        ELSE LET c == CallMethod(g.ret, "mtime")
             IN  Via(IF c.err # "ok" THEN Raise(c.err, g.root)
                     ELSE Return(c.ret, g.root),
                     parts, "mtime", c)

\* ------------------------------------------------------- rmdir
\* mutant: the directory is deleted without looking at its contents
rmdir_nonemptycheck(root, parts) ==
    IF parts = <<>> THEN Raise("UnsupportedOperation", root)
    ELSE LET d == get_direntries(root, Parent(parts), FALSE)
         IN  IF d.err # "ok" THEN Raise(d.err, d.root)
             ELSE LET parent == DirAt(d.root, d.where)
                      name == Last(parts)
                  IN  IF OD_has(parent.files, name)
                      THEN Raise("NotADirectoryError", d.root)
                      ELSE IF ~OD_has(parent.subdirs, name)
                      THEN Raise("FileNotFoundError", d.root)
                      ELSE Return("None", Mutate(d.root, d.where,
                              [parent EXCEPT !.subdirs = OD_del(@, name)]))

\* rmdir(parts); the plain IOError is the "Directory not empty" one
rmdir(root, parts) ==
    IF parts = <<>> THEN Raise("UnsupportedOperation", root)
    ELSE LET d == get_direntries(root, Parent(parts), FALSE)
         IN  IF d.err # "ok" THEN Raise(d.err, d.root)
             ELSE LET parent == DirAt(d.root, d.where)
                      name == Last(parts)
                  IN  IF OD_has(parent.files, name)
                      THEN Raise("NotADirectoryError", d.root)
                      ELSE IF ~OD_has(parent.subdirs, name)
                      THEN Raise("FileNotFoundError", d.root)
                      ELSE LET dir == OD_get(parent.subdirs, name)
                           IN  IF dir.files # <<>> \/ dir.subdirs # <<>>
                               THEN Raise("IOError", d.root)
                               ELSE Return("None", Mutate(d.root, d.where,
                                       [parent EXCEPT !.subdirs =
                                           OD_del(@, name)]))

\* ------------------------------------------------------- unlink
\* mutant: the root is treated like any other path
unlink_rootunchecked(root, parts) ==
    LET d == get_direntries(root, Parent(parts), FALSE)
    IN  IF d.err # "ok" THEN Raise(d.err, d.root)
        ELSE IF parts = <<>> THEN Return("None", EmptyDir)
        ELSE LET parent == DirAt(d.root, d.where)
                 name == Last(parts)
             IN  IF OD_has(parent.subdirs, name)
                 THEN Raise("IsADirectoryError", d.root)
                 ELSE IF ~OD_has(parent.files, name)
                 THEN Raise("FileNotFoundError", d.root)
                 ELSE Return("None", Mutate(d.root, d.where,
                         [parent EXCEPT !.files = OD_del(@, name)]))

\* mutant: every file of the parent directory is dropped
unlink_clear(root, parts) ==
    IF parts = <<>> THEN Raise("IsADirectoryError", root)
    ELSE LET d == get_direntries(root, Parent(parts), FALSE)
         IN  IF d.err # "ok" THEN Raise(d.err, d.root)
             ELSE LET parent == DirAt(d.root, d.where)
                      name == Last(parts)
                  IN  IF OD_has(parent.subdirs, name)
                      THEN Raise("IsADirectoryError", d.root)
                      ELSE IF ~OD_has(parent.files, name)
                      THEN Raise("FileNotFoundError", d.root)
                      ELSE Return("None", Mutate(d.root, d.where,
                              [parent EXCEPT !.files = <<>>]))

\* unlink(parts)
unlink(root, parts) ==
    IF parts = <<>> THEN Raise("IsADirectoryError", root)
    ELSE LET d == get_direntries(root, Parent(parts), FALSE)
         IN  IF d.err # "ok" THEN Raise(d.err, d.root)
             ELSE LET parent == DirAt(d.root, d.where)
                      name == Last(parts)
                  IN  IF OD_has(parent.subdirs, name)
                      THEN Raise("IsADirectoryError", d.root)
                      ELSE IF ~OD_has(parent.files, name)
                      THEN Raise("FileNotFoundError", d.root)
                      ELSE Return("None", Mutate(d.root, d.where,
                              [parent EXCEPT !.files = OD_del(@, name)]))

\* touch(parts)
touch(root, parts) == Raise("UnsupportedOperation", root)

\* rename(srcparts, tgtparts)
rename(root, srcparts, tgtparts) == Raise("UnsupportedOperation", root)

\* the exceptions `except IOError` catches (IOError is OSError)
IsIOError(exc) ==
    exc \in {"IOError", "FileExistsError", "FileNotFoundError",
             "IsADirectoryError", "NotADirectoryError",
             "UnsupportedOperation"}

\* is_file(parts)
is_file(root, parts) ==
    LET g == get_fileentry(root, parts)
    IN  IF g.err = "ok" THEN Return(TRUE, g.root)
        ELSE IF IsIOError(g.err) THEN Return(FALSE, g.root)
        ELSE Raise(g.err, g.root)

\* mutant: the walk is made with create=True
is_dir_creates(root, parts) ==
    LET d == get_direntries(root, parts, TRUE)
    IN  IF d.err = "ok" THEN Return(TRUE, d.root)
        ELSE IF IsIOError(d.err) THEN Return(FALSE, d.root)
        ELSE Raise(d.err, d.root)

\* mutant: whatever is not a file is taken for a directory
is_dir_notfile(root, parts) ==
    LET g == get_fileentry(root, parts)
    IN  IF g.err = "ok" THEN Return(FALSE, g.root)
        ELSE IF IsIOError(g.err) THEN Return(TRUE, g.root)
        ELSE Raise(g.err, g.root)

\* is_dir(parts)
is_dir(root, parts) ==
    LET d == get_direntries(root, parts, FALSE)
    IN  IF d.err = "ok" THEN Return(TRUE, d.root)
        ELSE IF IsIOError(d.err) THEN Return(FALSE, d.root)
        ELSE Raise(d.err, d.root)

\* mutant: the write slot is tried by calling the entry's open_w()
writable_calls(root, parts) ==
    LET g == get_fileentry(root, parts)
    IN  IF g.err = "ok"
        THEN LET c == CallMethod(g.ret, "open_w")
             IN  Via(IF c.err # "ok" THEN Return(FALSE, g.root)
                     ELSE Return(c.ret # "None", g.root),
                     parts, "open_w", c)
        ELSE IF IsIOError(g.err) THEN Return(FALSE, g.root)
        ELSE Raise(g.err, g.root)

\* writable(parts): the stored entry is unpacked as a 4-tuple, which a
\* FileEntry instance is not
writable(root, parts) ==
    LET g == get_fileentry(root, parts)
    IN  IF g.err = "ok"
        THEN IF g.ret.kind = "tuple"
             THEN Return(g.ret.open_w # "None", g.root)
             ELSE Raise("TypeError", g.root)
        ELSE IF IsIOError(g.err) THEN Return(FALSE, g.root)
        ELSE Raise(g.err, g.root)

\* watch(parts, callback)
watch(root, parts) == Return(FALSE, root)

\* poll_watches()
poll_watches(root) == Return("None", root)

\* ------------------------------------------------------- FileCollectionPath
\* add_file(open_r, open_w, filesize, mtime) of the path object at parts
add_file(root, parts, open_r_, open_w_, filesize_, mtime_) ==
    add_fileentry(root, parts,
        [kind |-> "tuple", open_r |-> open_r_, open_w |-> open_w_,
         size |-> filesize_, mtime |-> mtime_])

\* mutant: path.open_w is passed on whatever path.writable() says
add_file_from_path_alwaysw(root, parts, path_is_writable) ==
    add_file(root, parts, "fn", "fn", "fn", "fn")

\* add_file_from_path(path) of the path object at parts, for a `path` whose
\* writable() returns path_is_writable
add_file_from_path(root, parts, path_is_writable) ==
    LET open_w_ == IF path_is_writable THEN "fn" ELSE "None"
    IN  add_file(root, parts, "fn", open_w_, "fn", "fn")

\* ------------------------------------------------------- the collection
\* number of files and directories in the tree below `entries`
RECURSIVE Size(_)
Size(entries) ==
    LET RECURSIVE below(_)
        below(i) == IF i > Len(entries.subdirs) THEN 0
                    ELSE Size(entries.subdirs[i][2]) + below(i + 1)
    IN  Len(entries.files) + Len(entries.subdirs) + below(1)

VARIABLES
    rootentries,    \* self.rootentries
    before,         \* self.rootentries as it was when the call began
    last,           \* the call the caller is looking at: method, arguments,
                    \* exception, result; NoCall between two calls
    path_writable   \* what writable() of the path handed to
                    \* add_file_from_path returns at present

vars == <<rootentries, before, last, path_writable>>

NoCall == [op |-> "None", parts |-> <<>>, arg |-> "None",
           err |-> "ok", ret |-> "None", invoked |-> {}]

\* FileCollection()
Init ==
    /\ rootentries = EmptyDir
    /\ before = EmptyDir
    /\ last = NoCall
    /\ path_writable = FALSE

\* one call of a method whose outcome is r; the callers make no call that
\* would leave more than MaxNodes files and directories in the collection
Call(op, parts, arg, r) ==
    /\ last.op = NoCall.op
    /\ Size(r.root) <= MaxNodes
    /\ before' = rootentries
    /\ rootentries' = r.root
    /\ last' = [op |-> op, parts |-> parts, arg |-> arg,
                err |-> r.err, ret |-> r.ret, invoked |-> r.invoked]
    /\ UNCHANGED path_writable

\* the caller has taken the outcome of its call and goes on
Resume ==
    /\ last.op # NoCall.op
    /\ last' = NoCall
    /\ before' = rootentries
    /\ UNCHANGED <<rootentries, path_writable>>

Register ==
    \E parts \in Paths, fileentry \in FileEntries :
        Call("add_fileentry", parts, fileentry,
             add_fileentry(rootentries, parts, fileentry))

Lookup ==
    \E parts \in Paths :
        Call("get_fileentry", parts, "None", get_fileentry(rootentries, parts))

OpenR ==
    \E parts \in Paths :
        Call("open_r", parts, "None", open_r(rootentries, parts))

OpenW ==
    \E parts \in Paths :
        Call("open_w", parts, "None", open_w(rootentries, parts))

List ==
    \E parts \in Paths :
        Call("list", parts, "None", list(rootentries, parts))

Filesize ==
    \E parts \in Paths :
        Call("filesize", parts, "None", filesize(rootentries, parts))

Mtime ==
    \E parts \in Paths :
        Call("mtime", parts, "None", mtime(rootentries, parts))

Mkdirs ==
    \E parts \in Paths :
        Call("mkdirs", parts, "None", mkdirs(rootentries, parts))

Rmdir ==
    \E parts \in Paths :
        Call("rmdir", parts, "None", rmdir(rootentries, parts))

Unlink ==
    \E parts \in Paths :
        Call("unlink", parts, "None", unlink(rootentries, parts))

Touch ==
    \E parts \in Paths :
        Call("touch", parts, "None", touch(rootentries, parts))

Rename ==
    \E srcparts \in Paths, tgtparts \in RenameTargets :
        Call("rename", srcparts, tgtparts,
             rename(rootentries, srcparts, tgtparts))

IsFile ==
    \E parts \in Paths :
        Call("is_file", parts, "None", is_file(rootentries, parts))

IsDir ==
    \E parts \in Paths :
        Call("is_dir", parts, "None", is_dir(rootentries, parts))

Writable ==
    \E parts \in Paths :
        Call("writable", parts, "None", writable(rootentries, parts))

Watch ==
    \E parts \in Paths :
        Call("watch", parts, "None", watch(rootentries, parts))

PollWatches ==
    Call("poll_watches", <<>>, "None", poll_watches(rootentries))

Next ==
    \/ Register
    \/ Lookup
    \/ OpenR
    \/ OpenW
    \/ List
    \/ Filesize
    \/ Mtime
    \/ Mkdirs
    \/ Rmdir
    \/ Unlink
    \/ Touch
    \/ Rename
    \/ IsFile
    \/ IsDir
    \/ Writable
    \/ Watch
    \/ PollWatches
    \/ Resume

Spec == Init /\ [][Next]_vars

\* ---------------------------------------- registration from another path
AddFileFromPath ==
    \E parts \in Paths :
        Call("add_file_from_path", parts, path_writable,
             add_file_from_path(rootentries, parts, path_writable))

\* the file behind the other path becomes writable or read-only; the
\* collection is not called
PathChanges ==
    /\ last.op = NoCall.op
    /\ path_writable' = ~path_writable
    /\ before' = rootentries
    /\ last' = [NoCall EXCEPT !.op = "path_changes"]
    /\ UNCHANGED rootentries

\* a collection filled from another path while that path's file changes
NextFromPath ==
    \/ AddFileFromPath
    \/ PathChanges
    \/ Writable
    \/ OpenW
    \/ Unlink
    \/ Resume

SpecFromPath == Init /\ [][NextFromPath]_vars

\* ------------------------------------------------------- reading a tree
\* parts names a directory of the tree (the empty path names the root)
RECURSIVE HasDir(_, _)
HasDir(entries, parts) ==
    \/ parts = <<>>
    \/ /\ OD_has(entries.subdirs, Head(parts))
       /\ HasDir(OD_get(entries.subdirs, Head(parts)), Tail(parts))

\* parts names a file entry of the tree
HasFile(root, parts) ==
    /\ parts # <<>>
    /\ HasDir(root, Parent(parts))
    /\ OD_has(DirAt(root, Parent(parts)).files, Last(parts))

\* the entry stored at parts
EntryAt(root, parts) == OD_get(DirAt(root, Parent(parts)).files, Last(parts))

\* the names of the subdirectories / files of the directory at parts, in
\* iteration order
SubdirNames(root, parts) == OD_keys(DirAt(root, parts).subdirs)

FileNames(root, parts) == OD_keys(DirAt(root, parts).files)

\* the elements of a sequence
Range(seq) == {seq[i] : i \in DOMAIN seq}

\* seq without the elements outside `keep` / without the element x
Restrict(seq, keep) == SelectSeq(seq, LAMBDA x : x \in keep)

Without(seq, x) == SelectSeq(seq, LAMBDA y : y # x)

\* q is parts[:n] for some n < len(parts)
ProperPrefix(q, parts) ==
    Len(q) < Len(parts) /\ q = Prefix(parts, Len(q))

\* the last call was `op` and raised nothing
Succeeded(op) == last.op = op /\ last.err = "ok"

\* ------------------------------------------------------- C1
\* C1: in every reachable state no directory has a name that is both in its
\* file mapping and in its subdirectory mapping.
C1_DisjointNames ==
    \A q \in Paths :
        HasDir(rootentries, q) =>
            Range(FileNames(rootentries, q))
                \cap Range(SubdirNames(rootentries, q)) = {}

\* a directory holding both a file and a subdirectory, after a registration
\* on the name of one of its subdirectories
C1_Witness ==
    /\ last.op = "add_fileentry"
    /\ last.parts # <<>>
    /\ HasDir(before, last.parts)
    /\ FileNames(rootentries, Parent(last.parts)) # <<>>

\* ------------------------------------------------------- C2
\* C2: after a successful add_fileentry(p, e), get_fileentry(p) succeeds and
\* returns exactly e.
C2_RegisterThenLookup ==
    Succeeded("add_fileentry") =>
        get_fileentry(rootentries, last.parts)
            = Return(last.arg, rootentries)

\* a registration on a path that held a different entry
C2_Witness ==
    /\ Succeeded("add_fileentry")
    /\ HasFile(before, last.parts)
    /\ EntryAt(before, last.parts) # last.arg

\* ------------------------------------------------------- C3
\* C3 as stated: get_fileentry, open_r and open_w on any path with no file
\* entry raise FileNotFoundError.
C3_Original ==
    (last.op \in {"get_fileentry", "open_r", "open_w"}
        /\ ~HasFile(before, last.parts))
    => last.err = "FileNotFoundError"

\* C3 amended: get_fileentry, open_r and open_w on a path with no file entry
\* raise FileNotFoundError unless the path is the root or a directory, where
\* they raise IsADirectoryError.
C3_Unregistered ==
    (last.op \in {"get_fileentry", "open_r", "open_w"}
        /\ ~HasFile(before, last.parts))
    => last.err = IF HasDir(before, last.parts)
                  THEN "IsADirectoryError"
                  ELSE "FileNotFoundError"

\* an open on a path beneath a registered file
C3_Witness ==
    /\ last.op \in {"open_r", "open_w"}
    /\ Len(last.parts) = 2
    /\ HasFile(before, Parent(last.parts))
    /\ last.err = "FileNotFoundError"

\* ------------------------------------------------------- C4
\* no proper prefix of parts is a file: the parent chain resolves or can be
\* created
ChainFree(root, parts) ==
    \A n \in 1..(Len(parts) - 1) : ~HasFile(root, Prefix(parts, n))

\* the outcome of add_fileentry, the error of the directory case left open
RegisterOutcome(direrr) ==
    last.op = "add_fileentry" =>
        IF last.parts = <<>> THEN last.err = "IsADirectoryError"
        ELSE IF HasDir(before, last.parts) THEN last.err = direrr
        ELSE IF ChainFree(before, last.parts) THEN last.err = "ok"
        ELSE TRUE

\* C4 as stated: add_fileentry raises IsADirectoryError on the empty path,
\* FileExistsError when the final name is a subdirectory of its parent, and
\* succeeds otherwise when the parent chain resolves or can be created.
C4_Original == RegisterOutcome("FileExistsError")

\* C4 amended: add_fileentry raises IsADirectoryError on the empty path and
\* also when the final name is a subdirectory of its parent, and succeeds
\* otherwise when the parent chain resolves or can be created.
C4_RegisterErrors == RegisterOutcome("IsADirectoryError")

\* a registration on the path of a subdirectory below the root
C4_Witness ==
    /\ last.op = "add_fileentry"
    /\ Len(last.parts) = 2
    /\ HasDir(before, last.parts)
    /\ last.err # "ok"

\* ------------------------------------------------------- C5
\* C5 as stated: when add_fileentry(p, e) succeeds on a tree, mkdirs(p)
\* followed by add_fileentry(p, e) on that tree succeeds too and gives the
\* same tree.
C5_Original ==
    (Succeeded("add_fileentry") /\ last.parts # <<>>) =>
        LET m == mkdirs(before, last.parts)
        IN  /\ m.err = "ok"
            /\ add_fileentry(m.root, last.parts, last.arg)
                   = Return("None", rootentries)

\* C5 amended: when add_fileentry(p, e) succeeds on a tree, mkdirs of p's
\* parent directory followed by add_fileentry(p, e) on that tree succeeds
\* too and gives the same tree, listing order included.
C5_MkdirsParentThenRegister ==
    (Succeeded("add_fileentry") /\ last.parts # <<>>) =>
        LET m == mkdirs(before, Parent(last.parts))
        IN  /\ m.err = "ok"
            /\ add_fileentry(m.root, last.parts, last.arg)
                   = Return("None", rootentries)

\* a registration that created its parent directory in a non-empty tree
C5_Witness ==
    /\ Succeeded("add_fileentry")
    /\ Len(last.parts) = 2
    /\ ~HasDir(before, Parent(last.parts))
    /\ before.subdirs # <<>>

\* ------------------------------------------------------- C6
\* C6: a successful add_fileentry(p, e) makes exactly the missing proper
\* prefixes of p directories, each holding only the next element of the
\* chain; p's parent maps p's final name to e; every other directory and
\* file entry is as before, and the names that were listed in a directory
\* keep their relative order.
C6_RegisterFrame ==
    Succeeded("add_fileentry") =>
        /\ \A q \in Paths :
              HasDir(rootentries, q) <=>
                  (HasDir(before, q) \/ ProperPrefix(q, last.parts))
        /\ \A q \in Paths :
              HasFile(rootentries, q) <=>
                  (HasFile(before, q) \/ q = last.parts)
        /\ EntryAt(rootentries, last.parts) = last.arg
        /\ \A q \in Paths :
              (HasFile(before, q) /\ q # last.parts) =>
                  EntryAt(rootentries, q) = EntryAt(before, q)
        /\ \A q \in Paths :
              HasDir(before, q) =>
                  /\ Restrict(SubdirNames(rootentries, q),
                              Range(SubdirNames(before, q)))
                         = SubdirNames(before, q)
                  /\ Restrict(FileNames(rootentries, q),
                              Range(FileNames(before, q)))
                         = FileNames(before, q)
        /\ \A q \in Paths :
              (ProperPrefix(q, last.parts) /\ ~HasDir(before, q)) =>
                  IF Len(q) = Len(last.parts) - 1
                  THEN /\ SubdirNames(rootentries, q) = <<>>
                       /\ FileNames(rootentries, q) = <<Last(last.parts)>>
                  ELSE /\ SubdirNames(rootentries, q)
                              = <<last.parts[Len(q) + 1]>>
                       /\ FileNames(rootentries, q) = <<>>

\* a registration that created its parent directory in a tree that already
\* held a file entry
C6_Witness ==
    /\ Succeeded("add_fileentry")
    /\ Len(last.parts) = 2
    /\ ~HasDir(before, Parent(last.parts))
    /\ before.files # <<>>

\* ------------------------------------------------------- C7
\* the shortest prefix parts[:n], n in 1..hi, at which a file is registered
\* (the empty path when there is none)
FilePrefix(root, parts, hi) ==
    LET ns == {n \in 1..hi : HasFile(root, Prefix(parts, n))}
    IN  IF ns = {} THEN <<>>
        ELSE Prefix(parts, CHOOSE n \in ns : \A m \in ns : n <= m)

\* C7: with a file entry registered at p, mkdirs(p), mkdirs(p + q) and
\* add_fileentry(p + q, e) for non-empty q raise FileExistsError and p is
\* still that file afterwards.
C7_FileBlocksDirectory ==
    LET hi == IF last.op = "mkdirs" THEN Len(last.parts)
              ELSE Len(last.parts) - 1
        p == FilePrefix(before, last.parts, hi)
    IN  (last.op \in {"mkdirs", "add_fileentry"} /\ p # <<>>) =>
            /\ last.err = "FileExistsError"
            /\ HasFile(rootentries, p)
            /\ EntryAt(rootentries, p) = EntryAt(before, p)

\* a registration beneath a registered file
C7_Witness ==
    /\ last.op = "add_fileentry"
    /\ Len(last.parts) = 2
    /\ HasFile(before, Parent(last.parts))
    /\ last.err = "FileExistsError"

\* ------------------------------------------------------- C8
\* C8: rmdir(p) raises UnsupportedOperation on the root, NotADirectoryError
\* when p is a file, FileNotFoundError when p's final name is absent or its
\* parent does not resolve, the "not empty" IOError when p is a directory
\* with a file or a subdirectory (which stays); otherwise it removes the
\* empty directory p and is_dir(p) is False afterwards.
C8_RmdirOutcomes ==
    last.op = "rmdir" =>
        IF last.parts = <<>> THEN last.err = "UnsupportedOperation"
        ELSE IF HasFile(before, last.parts)
        THEN last.err = "NotADirectoryError"
        ELSE IF ~HasDir(before, last.parts)
        THEN last.err = "FileNotFoundError"
        ELSE IF DirAt(before, last.parts) # EmptyDir
        THEN /\ last.err = "IOError"
             /\ HasDir(rootentries, last.parts)
             /\ DirAt(rootentries, last.parts) = DirAt(before, last.parts)
        ELSE /\ last.err = "ok"
             /\ ~HasDir(rootentries, last.parts)
             /\ is_dir(rootentries, last.parts) = Return(FALSE, rootentries)

\* the removal of an empty directory
C8_Witness ==
    /\ Succeeded("rmdir")
    /\ HasDir(before, last.parts)
    /\ DirAt(before, last.parts) = EmptyDir

\* ------------------------------------------------------- C9
\* in a listing every subdirectory of the directory at q precedes every file
SubdirsFirst(root, q, listing) ==
    \A i, j \in DOMAIN listing :
        (listing[i] \in Range(SubdirNames(root, q))
            /\ listing[j] \in Range(FileNames(root, q))) => i < j

C10_RootImmune ==
    /\ is_dir(rootentries, <<>>) = Return(TRUE, rootentries)
    /\ is_file(rootentries, <<>>) = Return(FALSE, rootentries)
    /\ (last.op \in {"unlink", "rmdir", "touch"} /\ last.parts = <<>>) =>
          /\ last.err = IF last.op = "unlink" THEN "IsADirectoryError"
                        ELSE "UnsupportedOperation"
          /\ rootentries = before
    /\ (last.op = "rename" /\ (last.parts = <<>> \/ last.arg = <<>>)) =>
          /\ last.err = "UnsupportedOperation"
          /\ rootentries = before

\* unlink of the root of a tree that holds a file
C10_Witness ==
    /\ last.op = "unlink"
    /\ last.parts = <<>>
    /\ before.files # <<>>

\* ------------------------------------------------------- C11
\* the entry slot a method reads
SlotOf(op) ==
    CASE op = "open_r" -> "open_r"
      [] op = "open_w" -> "open_w"
      [] op = "filesize" -> "size"
      [] op = "mtime" -> "mtime"

\* C11: on an entry registered through add_file with a slot left None, the
\* method reading that slot (open_r, open_w, filesize, mtime) raises
\* UnsupportedOperation, while get_fileentry on the path succeeds.
C11_AbsentSlotUnsupported ==
    (/\ last.op \in {"open_r", "open_w", "filesize", "mtime"}
     /\ HasFile(before, last.parts)
     /\ EntryAt(before, last.parts).kind = "tuple"
     /\ EntryAt(before, last.parts)[SlotOf(last.op)] = "None")
    => /\ last.err = "UnsupportedOperation"
       /\ get_fileentry(before, last.parts).err = "ok"

\* ------------------------------------------------------- C12
\* C12: is_file, is_dir and writable never raise; is_file and is_dir tell
\* whether the path is a file entry / a directory, and writable is True
\* exactly when the path is a file entry whose write slot is present (so it
\* is False for the root, a directory and any path that does not resolve).
C12_PredicatesNeverRaise ==
    last.op \in {"is_file", "is_dir", "writable"} =>
        /\ last.err = "ok"
        /\ last.ret =
              CASE last.op = "is_file" -> HasFile(before, last.parts)
                [] last.op = "is_dir" -> HasDir(before, last.parts)
                [] last.op = "writable" ->
                      /\ HasFile(before, last.parts)
                      /\ EntryAt(before, last.parts).open_w # "None"

\* ------------------------------------------------------- C13
\* the call looked at is a successful registration / unlink at path p
RegisteredAt(p) ==
    /\ last.op \in {"add_fileentry", "add_file_from_path"}
    /\ last.err = "ok"
    /\ last.parts = p

UnlinkedAt(p) == Succeeded("unlink") /\ last.parts = p

\* the file entry at p is the same before and after the call
SameEntry(p) ==
    /\ HasFile(rootentries, p)
    /\ EntryAt(rootentries, p) = EntryAt(before, p)

\* C13 as stated: the entry registered at p is what get_fileentry(p) returns
\* after every call other than a successful unlink(p); a second
\* add_fileentry(p, e2) does not replace it.
C13_Original ==
    \A p \in Paths :
        (HasFile(before, p) /\ ~UnlinkedAt(p)) => SameEntry(p)

\* C13 amended: the entry registered at p is what get_fileentry(p) returns
\* after every call other than a successful unlink(p) or a successful
\* add_fileentry(p, e2); the latter replaces the entry by e2 in place, its
\* name keeping its position in the directory.
C13_EntriesStable ==
    /\ \A p \in Paths :
          (HasFile(before, p) /\ ~UnlinkedAt(p) /\ ~RegisteredAt(p))
              => /\ SameEntry(p)
                 /\ get_fileentry(rootentries, p).ret = EntryAt(before, p)
    /\ \A p \in Paths :
          (HasFile(before, p) /\ RegisteredAt(p))
              => /\ get_fileentry(rootentries, p).ret = last.arg
                 /\ FileNames(rootentries, Parent(p))
                        = FileNames(before, Parent(p))

\* a second registration on the first of two files of a directory, with
\* another entry
C13_Witness ==
    /\ Succeeded("add_fileentry")
    /\ HasFile(before, last.parts)
    /\ EntryAt(before, last.parts) # last.arg
    /\ Len(FileNames(before, Parent(last.parts))) = 2
    /\ FileNames(before, Parent(last.parts))[1] = Last(last.parts)

\* ------------------------------------------------------- C14
\* what list yields for the directory at q, cut down to the names in `keep`
Listed(root, q, keep) == Restrict(list(root, q).ret, keep)

\* the names in `now` that were in `old` are in the order of `old`, and the
\* other names of `now` come after them
InsertionOrder(old, now) ==
    now = Restrict(old, Range(now)) \o Restrict(now, Range(now) \ Range(old))

\* C14: for every directory d, list(d) yields each child name exactly once,
\* the subdirectory names before the file names, and in each group the names
\* in the order of their insertion: across every call the names that stay
\* keep their order and the names that come in go last.
C14_ListOrder ==
    \A q \in Paths :
        HasDir(rootentries, q) =>
            LET l == list(rootentries, q)
                subdirs == Range(SubdirNames(rootentries, q))
                files == Range(FileNames(rootentries, q))
            IN  /\ l.err = "ok"
                /\ Range(l.ret) = subdirs \cup files
                /\ Len(l.ret) = Cardinality(subdirs \cup files)
                /\ SubdirsFirst(rootentries, q, l.ret)
                /\ HasDir(before, q) =>
                      /\ InsertionOrder(
                             Listed(before, q, Range(SubdirNames(before, q))),
                             Listed(rootentries, q, subdirs))
                      /\ InsertionOrder(
                             Listed(before, q, Range(FileNames(before, q))),
                             Listed(rootentries, q, files))

\* a listing of a directory that holds a subdirectory and a file
C14_Witness ==
    /\ Succeeded("list")
    /\ Len(last.ret) = 2
    /\ last.ret[1] \in Range(SubdirNames(before, last.parts))
    /\ last.ret[2] \in Range(FileNames(before, last.parts))

\* ------------------------------------------------------- C15
\* every prefix of parts, parts included, is a directory
ChainOfDirs(root, parts) ==
    \A n \in 0..Len(parts) : HasDir(root, Prefix(parts, n))

\* C15: after a successful mkdirs(p) every prefix of p is a directory and a
\* second mkdirs(p) succeeds and leaves the tree as it is; mkdirs(p) on a
\* path whose prefixes are all directories succeeds and changes nothing.
C15_MkdirsIdempotent ==
    last.op = "mkdirs" =>
        /\ last.err = "ok" =>
              /\ ChainOfDirs(rootentries, last.parts)
              /\ mkdirs(rootentries, last.parts)
                     = Return("None", rootentries)
        /\ ChainOfDirs(before, last.parts) =>
              /\ last.err = "ok"
              /\ rootentries = before

\* a mkdirs that created a chain of two directories
C15_Witness ==
    /\ Succeeded("mkdirs")
    /\ Len(last.parts) = 2
    /\ ~HasDir(before, Prefix(last.parts, 1))

\* ------------------------------------------------------- C16
\* C16: add_file_from_path(other) registers an entry whose write slot is
\* present exactly when other.writable() was True at the call, and writable
\* on the registered path keeps that value whatever other.writable() returns
\* later: it changes only by a later registration or unlink at that path.
C16_FrozenWritable ==
    /\ (last.op = "add_file_from_path" /\ last.err = "ok") =>
          /\ (EntryAt(rootentries, last.parts).open_w # "None") = last.arg
          /\ writable(rootentries, last.parts)
                 = Return(last.arg, rootentries)
    /\ \A p \in Paths :
          (HasFile(before, p) /\ ~RegisteredAt(p) /\ ~UnlinkedAt(p)) =>
              writable(rootentries, p).ret = writable(before, p).ret

\* the other path has just changed and an entry registered from it reports
\* the opposite of what the path reports now
C16_Witness ==
    /\ last.op = "path_changes"
    /\ \E p \in Paths :
          /\ HasFile(rootentries, p)
          /\ writable(rootentries, p).ret # path_writable

\* ------------------------------------------------------- C17
\* C17: a directory goes only by a successful rmdir of its path while it is
\* empty, a file entry only by a successful unlink of its path; directories
\* come only by a successful add_fileentry or mkdirs on a path they are a
\* prefix of, file entries only by a successful add_fileentry of their path;
\* no other method changes the tree.
C17_Lifecycle ==
    /\ \A q \in Paths :
          (HasDir(before, q) /\ ~HasDir(rootentries, q)) =>
              /\ Succeeded("rmdir")
              /\ last.parts = q
              /\ DirAt(before, q) = EmptyDir
    /\ \A q \in Paths :
          (HasFile(before, q) /\ ~HasFile(rootentries, q)) => UnlinkedAt(q)
    /\ \A q \in Paths :
          (~HasDir(before, q) /\ HasDir(rootentries, q)) =>
              \/ RegisteredAt(last.parts) /\ ProperPrefix(q, last.parts)
              \/ /\ Succeeded("mkdirs")
                 /\ Len(q) <= Len(last.parts)
                 /\ q = Prefix(last.parts, Len(q))
    /\ \A q \in Paths :
          (~HasFile(before, q) /\ HasFile(rootentries, q)) => RegisteredAt(q)
    /\ last.op \notin {"add_fileentry", "add_file_from_path", "mkdirs",
                       "rmdir", "unlink"}
          => rootentries = before

\* the removal of an empty directory from a directory of a tree that holds
\* a file
C17_Witness ==
    /\ Succeeded("rmdir")
    /\ Len(last.parts) = 2
    /\ before.files # <<>>

\* ------------------------------------------------------- C18
\* C18: a method of a stored entry is called only by open_r, open_w,
\* filesize and mtime, only on the entry at the path given and only the one
\* the method is for; no other method of the collection calls any.
C18_ProvidersOnDemand ==
    IF last.op \in {"open_r", "open_w", "filesize", "mtime"}
    THEN /\ last.invoked \subseteq {<<last.parts, SlotOf(last.op)>>}
         /\ last.invoked # {} => HasFile(before, last.parts)
    ELSE last.invoked = {}

\* an open_r that called the entry's open_r
C18_Witness ==
    /\ last.op = "open_r"
    /\ last.invoked = {<<last.parts, "open_r">>}

\* ------------------------------------------------------- C19
\* C19: when a call raises, add_fileentry, mkdirs, rmdir and unlink included,
\* the tree is as it was before the call: no directory created or removed, no
\* file entry added, replaced or removed.
C19_FailureLeavesTree ==
    last.err # "ok" => rootentries = before

\* a mkdirs of two segments stopped by a file at the second one
C19_Witness ==
    /\ last.op = "mkdirs"
    /\ last.err = "FileExistsError"
    /\ Len(last.parts) = 2
    /\ HasFile(before, last.parts)

\* ------------------------------------------------------- C20
\* C20: no path is both is_file and is_dir, and when a path is either, every
\* proper prefix of it is_dir and not is_file.
C20_FileXorDirPrefixClosed ==
    \A p \in Paths :
        LET f == is_file(rootentries, p)
            d == is_dir(rootentries, p)
        IN  /\ f.err = "ok"
            /\ d.err = "ok"
            /\ ~(f.ret /\ d.ret)
            /\ (f.ret \/ d.ret) =>
                  \A n \in 0..(Len(p) - 1) :
                      /\ is_dir(rootentries, Prefix(p, n)).ret
                      /\ ~is_file(rootentries, Prefix(p, n)).ret

\* is_dir answered False for a path beneath a file
C20_Witness ==
    /\ last.op = "is_dir"
    /\ Len(last.parts) = 2
    /\ HasFile(before, Parent(last.parts))
    /\ last.ret = FALSE

====
